---- MODULE Spec2Model ----
(***************************************************************************)
(* A model of cdpem_core: the closed-loop engine (Kalman filter, PID law,  *)
(* noisy channel), the M/M/1 queue simulator and the grid-search tuner,    *)
(* all of which draw from numpy's process-wide random stream.              *)
(*                                                                         *)
(* Reals are modelled in fixed point: the integer n stands for n/Scale,    *)
(* and a product or quotient is rounded down to the next multiple of       *)
(* 1/Scale.  +infinity (np.inf) is the value Inf, above every finite one.  *)
(***************************************************************************)
EXTENDS Integers, Sequences, FiniteSets, TLC

\* ------------------------------------------------------------------ bounds
Scale == 1000        \* fixed-point resolution: n stands for n/Scale
MaxT == 2            \* longest horizon of a closed-loop run (periods)
MaxSeed == 2         \* seeds 1..MaxSeed, besides None
MaxGrid == 2         \* longest tuner grid
MaxHorizon == 2      \* longest queue horizon, in time units
MaxLen == 4          \* longest series handed to compute_fft_spectrum
MaxRows == 2         \* most rows read from the dataset of the network tab

\* ---------------------------------------------------------- number domain
None == -1
\* np.inf, and the largest magnitude a number of the model holds: a result
\* that would reach it overflows to +inf, as a float does beyond its range
Inf == 1000000000

Abs(a) == IF a < 0 THEN -a ELSE a
\* floor(a * b / Scale), taken by parts to keep the product within range
Mul(a, b) == a * (b \div Scale) + (a * (b % Scale)) \div Scale
\* the sum of two numbers that are not negative, +inf or not
Add(a, b) == IF a >= Inf \/ b >= Inf \/ a + b >= Inf THEN Inf ELSE a + b
\* d * d, +inf on overflow
Square(d) == IF d # 0 /\ Abs(d) > (Inf - 1) \div Abs(d) THEN Inf ELSE d * d

\* sqrt of the fixed-point a >= 0: the largest k with (k/Scale)^2 <= a/Scale
Sqrt(a) ==
    CHOOSE k \in 0 .. (a + Scale) : k * k <= a * Scale /\ (k + 1) * (k + 1) > a * Scale

RECURSIVE SumSeq(_)
SumSeq(s) == IF s = <<>> THEN 0 ELSE Head(s) + SumSeq(Tail(s))
\* the sum of numbers that are not negative, +inf or not
RECURSIVE SumSat(_)
SumSat(s) == IF s = <<>> THEN 0 ELSE Add(Head(s), SumSat(Tail(s)))

\* ------------------------------------------------- numpy's global stream
\* The state of numpy's process-wide generator, cut down to 16 states: a
\* full-period congruential generator stands for the Mersenne twister.
RngStates == 0 .. 15
Lcg(r) == (5 * r + 3) % 16
\* np.random.seed(seed): the state is a function of the seed alone
SeedState(seed) == (7 * seed + 1) % 16
\* one standard normal deviate read off the state: -2, -1, 0, 1 or 2
StdNormal(r) == ((r % 5) - 2) * Scale
\* one standard exponential deviate read off the state: 0, 0.5, 1, 1.5
StdExponential(r) == (r % 4) * (Scale \div 2)

\* ----------------------------------------------------- 2x2 linear algebra
\* a matrix is <<m11, m12, m21, m22>>, a column vector <<x1, x2>>
Eye2 == <<Scale, 0, 0, Scale>>
MatScale(c, M) == <<Mul(c, M[1]), Mul(c, M[2]), Mul(c, M[3]), Mul(c, M[4])>>
MatAdd(M, N) == <<M[1] + N[1], M[2] + N[2], M[3] + N[3], M[4] + N[4]>>
MatSub(M, N) == <<M[1] - N[1], M[2] - N[2], M[3] - N[3], M[4] - N[4]>>
MatMul(M, N) ==
    << Mul(M[1], N[1]) + Mul(M[2], N[3]), Mul(M[1], N[2]) + Mul(M[2], N[4]),
       Mul(M[3], N[1]) + Mul(M[4], N[3]), Mul(M[3], N[2]) + Mul(M[4], N[4]) >>
Transpose(M) == <<M[1], M[3], M[2], M[4]>>
MatVec(M, x) == << Mul(M[1], x[1]) + Mul(M[2], x[2]),
                   Mul(M[3], x[1]) + Mul(M[4], x[2]) >>
VecAdd(x, y) == <<x[1] + y[1], x[2] + y[2]>>
VecSub(x, y) == <<x[1] - y[1], x[2] - y[2]>>
VecScale(c, x) == <<Mul(c, x[1]), Mul(c, x[2])>>
\* the determinant at full precision: zero exactly when the matrix is singular
RawDet(M) == M[1] * M[4] - M[2] * M[3]
\* np.linalg.inv of a non-singular matrix: adj(M)/det(M)
Inv(M) ==
    LET d == RawDet(M)
    IN  << (M[4] * Scale * Scale) \div d, ((0 - M[2]) * Scale * Scale) \div d,
           ((0 - M[3]) * Scale * Scale) \div d, (M[1] * Scale * Scale) \div d >>

\* ------------------------------------------- simulate_cdpm's default model
DefaultA == << (8 * Scale) \div 10, Scale \div 10, Scale \div 10, (7 * Scale) \div 10 >>
DefaultB == << (2 * Scale) \div 10, Scale \div 10 >>
DefaultC == Eye2
DefaultQ == Scale \div 100          \* Q = 0.01 * I
DefaultR == (5 * Scale) \div 100    \* R = 0.05 * I
DefaultKp == (6 * Scale) \div 10
DefaultKi == (2 * Scale) \div 100
DefaultKd == Scale \div 10
DefaultTarget == (2 * Scale) \div 100
DefaultSigma == (5 * Scale) \div 100
Lam == Scale \div 10                \* the loss's weight on Var(u)

\* ------------------------------------------------------------------ state
VARIABLES
    rng,     \* the state of numpy's global generator, shared by every call
    pc,      \* where control is: "idle", "sim", "eval", "tune", "queue",
             \* or "returned" (a call has just ended)
    sim,     \* simulate_cdpm's frame: arguments, engine, locals, history
    evl,     \* evaluate_policy's frame
    tun,     \* coarse_grid_search's frame
    que,     \* simulate_mm1_queue's frame
    net,     \* the frame of the graph building of tabs/tab3_network.py
    ret,     \* what the call that has just ended handed to its caller
    watch,   \* the call whose outcomes are compared (fixed at the start)
    ref      \* the outcome of the first watched call that ended

vars == <<rng, pc, sim, evl, tun, que, net, ret, watch, ref>>

NoFrame == [active |-> FALSE]
NoRet == [op |-> "none"]
NoWatch == [op |-> "none"]
NoRef == [op |-> "none"]

\* A watched call's first outcome is kept in ref, to compare later ones with.
Capture(outcome) ==
    IF ref = NoRef /\ watch.op = outcome.op /\ watch.args = outcome.args
    THEN outcome ELSE ref

\* What a frame notes of the global state r it was entered in: r itself
\* while a watched call's first outcome is still to come, and afterwards
\* whether r differs from the state that first call was entered in.
EntryGhost(r) ==
    [ rng |-> IF watch # NoWatch /\ ref = NoRef THEN r ELSE None,
      other |-> ref # NoRef /\ r # ref.entry.rng ]

\* ------------------------------------------------------ CDEPMPolicyEngine
\* CDEPMPolicyEngine.__init__ (A, B, C are simulate_cdpm's defaults)
NewEngine(a) ==
    [ A |-> DefaultA, B |-> DefaultB, C |-> DefaultC,
      Q |-> MatScale(a.Q, Eye2), R |-> MatScale(a.R, Eye2),
      x_hat |-> <<0, 0>>,
      P |-> MatScale(Scale \div 10, Eye2),
      Kp |-> a.Kp, Ki |-> a.Ki, Kd |-> a.Kd,
      pi_target |-> a.pi_target, channel_sigma |-> a.channel_sigma,
      u_prev |-> 0, e_prev |-> 0, e_int |-> 0 ]

\* kalman_update: the innovation covariance S of the next update
InnovationCov(e) ==
    LET P_pred == MatAdd(MatMul(MatMul(e.A, e.P), Transpose(e.A)), e.Q)
    IN  MatAdd(MatMul(MatMul(e.C, P_pred), Transpose(e.C)), e.R)

\* np.linalg.inv(S) raises LinAlgError when S is singular
KalmanSingular(e) == RawDet(InnovationCov(e)) = 0

\* (a variant: a singular S is not inverted, and the update hands back the
\* prediction as the estimate)
KalmanUpdate_KeepsPrediction(e, z, u_eff_prev) ==
    LET x_pred == VecAdd(MatVec(e.A, e.x_hat), VecScale(u_eff_prev, e.B))
        P_pred == MatAdd(MatMul(MatMul(e.A, e.P), Transpose(e.A)), e.Q)
        S == MatAdd(MatMul(MatMul(e.C, P_pred), Transpose(e.C)), e.R)
        K == MatMul(MatMul(P_pred, Transpose(e.C)), Inv(S))
        y == VecSub(z, MatVec(e.C, x_pred))
    IN  IF KalmanSingular(e)
        THEN [ raised |-> FALSE,
               engine |-> [e EXCEPT !.x_hat = x_pred, !.P = P_pred] ]
        ELSE [ raised |-> FALSE,
               engine |-> [e EXCEPT !.x_hat = VecAdd(x_pred, MatVec(K, y)),
                                    !.P = MatMul(MatSub(Eye2, MatMul(K, e.C)), P_pred)] ]
\* kalman_update(z, u_eff_prev): whether np.linalg.inv(S) raised LinAlgError,
\* and the engine afterwards (untouched if it raised)
KalmanUpdate(e, z, u_eff_prev) ==
    LET x_pred == VecAdd(MatVec(e.A, e.x_hat), VecScale(u_eff_prev, e.B))
        P_pred == MatAdd(MatMul(MatMul(e.A, e.P), Transpose(e.A)), e.Q)
        S == MatAdd(MatMul(MatMul(e.C, P_pred), Transpose(e.C)), e.R)
        K == MatMul(MatMul(P_pred, Transpose(e.C)), Inv(S))
        y == VecSub(z, MatVec(e.C, x_pred))
    IN  IF KalmanSingular(e)
        THEN [raised |-> TRUE, engine |-> e]
        ELSE [ raised |-> FALSE,
               engine |-> [e EXCEPT !.x_hat = VecAdd(x_pred, MatVec(K, y)),
                                    !.P = MatMul(MatSub(Eye2, MatMul(K, e.C)), P_pred)] ]

\* policy_update: the designed instrument u_t
PolicyOutput(e) ==
    LET e_t == e.pi_target - e.x_hat[1]
        e_int == e.e_int + e_t
        e_der == e_t - e.e_prev
    IN  e.u_prev + Mul(e.Kp, e_t) + Mul(e.Ki, e_int) + Mul(e.Kd, e_der)

\* (a variant: the integral is clamped to a tenth either way, an anti-windup)
PolicyUpdate_ClampedIntegral(e) ==
    LET e_t == e.pi_target - e.x_hat[1]
        lim == Scale \div 10
        raw == e.e_int + e_t
    IN  [e EXCEPT !.e_int = IF raw > lim THEN lim
                            ELSE IF raw < 0 - lim THEN 0 - lim ELSE raw,
                  !.u_prev = PolicyOutput(e),
                  !.e_prev = e_t]
\* policy_update: the engine afterwards
PolicyUpdate(e) ==
    LET e_t == e.pi_target - e.x_hat[1]
    IN  [e EXCEPT !.e_int = e.e_int + e_t,
                  !.u_prev = PolicyOutput(e),
                  !.e_prev = e_t]

\* (a variant: the channel's noise has unit deviation, whatever channel_sigma)
TransmitPolicy_UnitNoise(e, u_t, r) == u_t + StdNormal(r)
\* transmit_policy: u_eff = u_t + N(0, channel_sigma), one draw at state r
TransmitPolicy(e, u_t, r) == u_t + Mul(e.channel_sigma, StdNormal(r))

\* np.random.multivariate_normal([0, 0], cov) for a diagonal cov: two
\* standard normals, drawn at r and Lcg(r), each scaled by the root of the
\* singular value |cov_ii|.  A cov that is not positive semi-definite gets a
\* RuntimeWarning (check_valid = 'warn') and is sampled from all the same.
MultivariateNormal(cov, r) ==
    << Mul(Sqrt(Abs(cov[1])), StdNormal(r)),
       Mul(Sqrt(Abs(cov[4])), StdNormal(Lcg(r))) >>

\* ---------------------------------------------------------- simulate_cdpm
EmptyHistory ==
    [ pi_true |-> <<>>, y_true |-> <<>>, pi_hat |-> <<>>, y_hat |-> <<>>,
      u |-> <<>>, u_eff |-> <<>> ]

\* (a variant: the seed argument is accepted and never applied)
SeedGlobal_Ignored(seed, r) == r
\* the seeding at the head of simulate_cdpm and of simulate_mm1_queue
SeedGlobal(seed, r) == IF seed # None THEN SeedState(seed) ELSE r

\* simulate_cdpm up to its loop: seed, defaults, engine, empty history
SimFrame(a, caller, r) ==
    [ active |-> TRUE, caller |-> caller, args |-> a, entry |-> EntryGhost(r),
      engine |-> NewEngine(a),
      x_true |-> <<0, 0>>, u_eff_prev |-> 0,
      history |-> EmptyHistory,
      n |-> 0,              \* iterations of `for _ in range(T)` done
      w |-> <<>>,           \* the process noise drawn in each iteration
      u_plant |-> <<>>,     \* the control each plant transition was given
      u_kf |-> <<>>,        \* the control each kalman_update was given
      z |-> <<>> ]          \* the observation of each iteration

\* (a variant: the plant is driven by the designed control, not the effective)
PlantControl_Designed(s) == s.engine.u_prev
\* the control the plant transition of this iteration uses
PlantControl(s) == s.u_eff_prev
\* the control handed to kalman_update in this iteration
EstimatorControl(s) == s.u_eff_prev

\* the plant transition: x_true = A x_true + B u + w_t
PlantStep(s, w_t) ==
    VecAdd(VecAdd(MatVec(s.engine.A, s.x_true),
                  VecScale(PlantControl(s), s.engine.B)), w_t)

\* (a variant: the control is computed before the estimator is updated, on
\* the estimate of the period before)
SimBody_ControlBeforeUpdate(s, r) ==
    LET w_t == MultivariateNormal(s.engine.Q, r)
        r2 == Lcg(Lcg(r))
        x_true == PlantStep(s, w_t)
        v_t == MultivariateNormal(s.engine.R, r2)
        r4 == Lcg(Lcg(r2))
        z_t == VecAdd(MatVec(s.engine.C, x_true), v_t)
        u_t == PolicyOutput(s.engine)
        k == KalmanUpdate(PolicyUpdate(s.engine), z_t, EstimatorControl(s))
        e1 == k.engine
        e2 == e1
        u_eff == TransmitPolicy(e2, u_t, r4)
        h == s.history
    IN  IF k.raised THEN [raised |-> TRUE, frame |-> s, rng |-> r4]
        ELSE
        [ raised |-> FALSE,
          frame |->
            [s EXCEPT !.engine = e2,
                      !.x_true = x_true,
                      !.history =
                          [ pi_true |-> Append(h.pi_true, x_true[1]),
                            y_true |-> Append(h.y_true, x_true[2]),
                            pi_hat |-> Append(h.pi_hat, e1.x_hat[1]),
                            y_hat |-> Append(h.y_hat, e1.x_hat[2]),
                            u |-> Append(h.u, u_t),
                            u_eff |-> Append(h.u_eff, u_eff) ],
                      !.u_eff_prev = u_eff,
                      !.n = s.n + 1,
                      !.w = Append(s.w, w_t),
                      !.u_plant = Append(s.u_plant, PlantControl(s)),
                      !.u_kf = Append(s.u_kf, EstimatorControl(s)),
                      !.z = Append(s.z, z_t)],
          rng |-> Lcg(r4) ]

\* One iteration of the loop, from global state r: whether kalman_update
\* raised (after the iteration's four draws, the frame as it was), or else
\* the frame afterwards and the global state after the five draws.
SimBody(s, r) ==
    LET w_t == MultivariateNormal(s.engine.Q, r)
        r2 == Lcg(Lcg(r))
        x_true == PlantStep(s, w_t)
        v_t == MultivariateNormal(s.engine.R, r2)
        r4 == Lcg(Lcg(r2))
        z_t == VecAdd(MatVec(s.engine.C, x_true), v_t)
        k == KalmanUpdate(s.engine, z_t, EstimatorControl(s))
        e1 == k.engine
        u_t == PolicyOutput(e1)
        e2 == PolicyUpdate(e1)
        u_eff == TransmitPolicy(e2, u_t, r4)
        h == s.history
    IN  IF k.raised THEN [raised |-> TRUE, frame |-> s, rng |-> r4]
        ELSE
        [ raised |-> FALSE,
          frame |->
            [s EXCEPT !.engine = e2,
                      !.x_true = x_true,
                      !.history =
                          [ pi_true |-> Append(h.pi_true, x_true[1]),
                            y_true |-> Append(h.y_true, x_true[2]),
                            pi_hat |-> Append(h.pi_hat, e1.x_hat[1]),
                            y_hat |-> Append(h.y_hat, e1.x_hat[2]),
                            u |-> Append(h.u, u_t),
                            u_eff |-> Append(h.u_eff, u_eff) ],
                      !.u_eff_prev = u_eff,
                      !.n = s.n + 1,
                      !.w = Append(s.w, w_t),
                      !.u_plant = Append(s.u_plant, PlantControl(s)),
                      !.u_kf = Append(s.u_kf, EstimatorControl(s)),
                      !.z = Append(s.z, z_t)],
          rng |-> Lcg(r4) ]

\* entry into simulate_cdpm (lines 128-166), from the top or from evaluate_policy
SimStart(a, caller) ==
    /\ rng' = SeedGlobal(a.seed, rng)
    /\ sim' = SimFrame(a, caller, rng)
    /\ pc' = "sim"
    /\ ret' = NoRet

\* the arguments the model calls simulate_cdpm with
SimArgs ==
    [ T : 0 .. MaxT, Kp : {DefaultKp, Scale}, Ki : {DefaultKi}, Kd : {DefaultKd},
      pi_target : {DefaultTarget}, channel_sigma : {0, DefaultSigma},
      Q : {0 - DefaultQ, 0, DefaultQ}, R : {0 - DefaultR, 0, DefaultR},
      seed : {None} \cup (1 .. MaxSeed) ]

\* a caller invokes simulate_cdpm
SimCall ==
    /\ pc = "idle"
    /\ \E a \in SimArgs : SimStart(a, "top")
    /\ UNCHANGED <<net, evl, tun, que, watch, ref>>

\* one iteration of `for _ in range(T)`; np.linalg.inv raising LinAlgError
\* ends the call, and every call above it, after the iteration's four draws
SimStep ==
    /\ pc = "sim"
    /\ sim.n < sim.args.T
    /\ LET b == SimBody(sim, rng)
       IN  IF b.raised
           THEN /\ rng' = b.rng
                /\ pc' = "returned"
                /\ ret' = [ op |-> "simulate_cdpm", args |-> sim.args,
                            kind |-> "raise", value |-> "LinAlgError",
                            caller |-> sim.caller, entry |-> sim.entry,
                            n |-> sim.n ]
                /\ sim' = NoFrame
                /\ evl' = NoFrame
                /\ tun' = NoFrame
                /\ ref' = IF sim.caller = "top"
                          THEN Capture([ op |-> "simulate_cdpm", args |-> sim.args,
                                         kind |-> "raise", value |-> "LinAlgError",
                                         caller |-> sim.caller,
                                         entry |-> sim.entry, n |-> sim.n ])
                          ELSE ref
           ELSE /\ sim' = b.frame
                /\ rng' = b.rng
                /\ UNCHANGED <<pc, ret, evl, tun, ref>>
    /\ UNCHANGED <<net, que, watch>>

\* `return history`, to the top-level caller or to evaluate_policy
SimReturn ==
    /\ pc = "sim"
    /\ sim.n >= sim.args.T
    /\ IF sim.caller = "top"
       THEN LET out == [ op |-> "simulate_cdpm", args |-> sim.args,
                         kind |-> "return", value |-> sim.history,
                         entry |-> sim.entry ]
            IN  /\ pc' = "returned"
                /\ ret' = out
                /\ ref' = Capture(out)
                /\ evl' = evl
       ELSE /\ pc' = "eval"
            /\ evl' = [evl EXCEPT !.hist = sim.history]
            /\ UNCHANGED <<ret, ref>>
    /\ sim' = NoFrame
    /\ UNCHANGED <<net, rng, tun, que, watch>>

\* ----------------------------------------------------- simulate_mm1_queue
\* np.random.exponential(scale): scale times a standard exponential deviate
Exponential(scale, r) == Mul(scale, StdExponential(r))
\* 1.0 / rate, for a positive rate
Reciprocal(rate) == (Scale * Scale) \div rate

QueueFrame(a, r) ==
    [ active |-> TRUE, args |-> a, entry |-> EntryGhost(r),
      t |-> 0, queue_length |-> 0, times |-> <<0>>, qs |-> <<0>>,
      service_drawn |-> <<>> ]   \* per iteration: was a service time drawn

\* (a variant: an arrival time is drawn for any rate but 0)
ArrivalDrawn_NonZero(q) == q.args.lmbda # 0
\* t_arrival: a draw when lmbda > 0, else np.inf
ArrivalDrawn(q) == q.args.lmbda > 0
\* (a variant: a service time is drawn whether or not anyone waits)
ServiceDrawn_AnyLength(q) == q.args.mu > 0
\* t_service: a draw when mu > 0 and the queue is not empty, else np.inf
ServiceDrawn(q) == q.args.mu > 0 /\ q.queue_length > 0

\* (a variant: the clock is set to the winning time, not moved on by it)
Advance_Absolute(t, dt) == dt
\* `t += t_arrival`, `t += t_service`: the clock moves on by the winning time
Advance(t, dt) == Add(t, dt)
\* (a variant: the completion branch decrements without looking)
Depart_Unguarded(queue_length) == queue_length - 1
\* a service completion: `if queue_length > 0: queue_length -= 1`
Depart(queue_length) ==
    IF queue_length > 0 THEN queue_length - 1 ELSE queue_length

\* t_arrival, drawn at global state r
ArrivalTime(q, r) ==
    IF ArrivalDrawn(q) THEN Exponential(Reciprocal(q.args.lmbda), r) ELSE Inf
\* (a variant: whoever waits is served at once, whatever the service rate)
ServiceTime_Immediate(q, r) == IF q.queue_length > 0 THEN 0 ELSE Inf
\* t_service, drawn at global state r
ServiceTime(q, r) ==
    IF ServiceDrawn(q) THEN Exponential(Reciprocal(q.args.mu), r) ELSE Inf
\* (a variant: a tie between the two candidate times counts as an arrival)
ArrivalFirst_OnTies(t_arrival, t_service) == t_arrival <= t_service
\* `if t_arrival < t_service`: is the next event an arrival
ArrivalFirst(t_arrival, t_service) == t_arrival < t_service

\* one iteration of `while t < T`, from global state r
QueueBody(q, r) ==
    LET t_arrival == ArrivalTime(q, r)
        r1 == IF ArrivalDrawn(q) THEN Lcg(r) ELSE r
        t_service == ServiceTime(q, r1)
        r2 == IF ServiceDrawn(q) THEN Lcg(r1) ELSE r1
        arrival == ArrivalFirst(t_arrival, t_service)
        t == IF arrival THEN Advance(q.t, t_arrival) ELSE Advance(q.t, t_service)
        queue_length ==
            IF arrival THEN q.queue_length + 1 ELSE Depart(q.queue_length)
    IN  [ frame |->
            [q EXCEPT !.t = t,
                      !.queue_length = queue_length,
                      !.times = Append(q.times, t),
                      !.qs = Append(q.qs, queue_length),
                      !.service_drawn = Append(q.service_drawn, ServiceDrawn(q))],
          rng |-> r2 ]

\* the arguments the model calls simulate_mm1_queue with
Rates == {0 - Scale, 0, Scale, 2 * Scale}
Horizons == {0 - Scale, 0} \cup {k * Scale : k \in 1 .. MaxHorizon}
QueueArgs ==
    [ lmbda : Rates, mu : Rates, T : Horizons, seed : {None} \cup (1 .. MaxSeed) ]

\* (a variant: the arguments are validated on entry, and a negative rate
\* or a horizon that is not positive raises)
QueueStart_Validating(a) ==
    IF a.lmbda < 0 \/ a.mu < 0 \/ a.T <= 0
    THEN /\ rng' = rng
         /\ que' = NoFrame
         /\ pc' = "returned"
         /\ ret' = [ op |-> "simulate_mm1_queue", args |-> a, kind |-> "raise",
                     value |-> "ValueError", entry |-> EntryGhost(rng) ]
    ELSE /\ rng' = SeedGlobal(a.seed, rng)
         /\ que' = QueueFrame(a, rng)
         /\ pc' = "queue"
         /\ ret' = NoRet

\* entry into simulate_mm1_queue (lines 21-27)
QueueStart(a) ==
    /\ rng' = SeedGlobal(a.seed, rng)
    /\ que' = QueueFrame(a, rng)
    /\ pc' = "queue"
    /\ ret' = NoRet

\* a caller invokes simulate_mm1_queue
QueueCall ==
    /\ pc = "idle"
    /\ \E a \in QueueArgs : QueueStart(a)
    /\ UNCHANGED <<net, sim, evl, tun, watch, ref>>

\* one iteration of `while t < T`
QueueStep ==
    /\ pc = "queue"
    /\ que.t < que.args.T
    /\ que' = QueueBody(que, rng).frame
    /\ rng' = QueueBody(que, rng).rng
    /\ UNCHANGED <<net, pc, sim, evl, tun, ret, watch, ref>>

\* `return times, qs`
QueueReturn ==
    /\ pc = "queue"
    /\ ~(que.t < que.args.T)
    /\ LET out == [ op |-> "simulate_mm1_queue", args |-> que.args,
                    kind |-> "return",
                    value |-> [times |-> que.times, qs |-> que.qs],
                    entry |-> que.entry,
                    service_drawn |-> que.service_drawn ]
       IN  /\ ret' = out
           /\ ref' = Capture(out)
    /\ pc' = "returned"
    /\ que' = NoFrame
    /\ UNCHANGED <<net, rng, sim, evl, tun, watch>>

\* another user of the global stream draws from it between two calls
\* (tabs/tab5_rl.py draws np.random.randn(n) unseeded)
ExternalDraw ==
    /\ pc = "idle"
    /\ rng' = Lcg(rng)
    /\ UNCHANGED <<net, pc, sim, evl, tun, que, ret, watch, ref>>

\* the caller takes what the call handed back (or the exception it raised)
\* and goes on: `hist = simulate_cdpm(...)`, `times, qs = simulate_mm1_queue(...)`
Receive ==
    /\ pc = "returned"
    /\ pc' = "idle"
    /\ ret' = NoRet
    /\ UNCHANGED <<net, rng, sim, evl, tun, que, watch, ref>>

\* ---------------------------------- CDEPMPolicyEngine, by shapes alone
\* What construction and one kalman_update do with arrays of any shape: an
\* array is known by its shape <<rows, columns>> only, and BadShape stands
\* for an operation numpy refused.
BadShape == <<>>
Max2(a, b) == IF a >= b THEN a ELSE b
\* x @ y: the inner dimensions must agree (ValueError otherwise)
MatMulShape(x, y) ==
    IF x = BadShape \/ y = BadShape THEN BadShape
    ELSE IF x[2] # y[1] THEN BadShape ELSE <<x[1], y[2]>>
\* x + y, x - y: broadcasting, each dimension equal or 1 (ValueError otherwise)
BroadcastShape(x, y) ==
    IF x = BadShape \/ y = BadShape THEN BadShape
    ELSE IF /\ (x[1] = y[1] \/ x[1] = 1 \/ y[1] = 1)
            /\ (x[2] = y[2] \/ x[2] = 1 \/ y[2] = 1)
         THEN <<Max2(x[1], y[1]), Max2(x[2], y[2])>>
         ELSE BadShape
TransposeShape(x) == IF x = BadShape THEN BadShape ELSE <<x[2], x[1]>>
\* np.linalg.inv: the array must be square (LinAlgError otherwise)
InvShape(x) ==
    IF x = BadShape THEN BadShape ELSE IF x[1] # x[2] THEN BadShape ELSE x

\* the shapes the model constructs an engine with
ShapeArgs ==
    [ A : {<<2, 2>>, <<3, 3>>}, B : {<<2, 1>>, <<3, 1>>},
      C : {<<2, 2>>, <<1, 2>>}, Q : {<<2, 2>>, <<3, 3>>},
      R : {<<2, 2>>, <<1, 1>>} ]

\* CDEPMPolicyEngine.__init__: x_hat and P take their size from A's rows
EngineShapes(a) ==
    [ A |-> a.A, B |-> a.B, C |-> a.C, Q |-> a.Q, R |-> a.R,
      x_hat |-> <<a.A[1], 1>>, P |-> <<a.A[1], a.A[1]>> ]

\* kalman_update on shapes, z a column with one entry for each row of C (S is
\* taken to be invertible if it is square): the error raised, if any, and
\* the engine afterwards.  self.x_hat is assigned before P is computed.
KalmanShapes(e) ==
    LET z == <<e.C[1], 1>>
        x_pred == BroadcastShape(MatMulShape(e.A, e.x_hat), e.B)
        P_pred == BroadcastShape(
                      MatMulShape(MatMulShape(e.A, e.P), TransposeShape(e.A)), e.Q)
        CP == MatMulShape(MatMulShape(e.C, P_pred), TransposeShape(e.C))
        S == BroadcastShape(CP, e.R)
        K == MatMulShape(MatMulShape(P_pred, TransposeShape(e.C)), InvShape(S))
        y == BroadcastShape(z, MatMulShape(e.C, x_pred))
        x_hat == BroadcastShape(x_pred, MatMulShape(K, y))
        P == MatMulShape(BroadcastShape(e.P, MatMulShape(K, e.C)), P_pred)
        error == IF x_pred # BadShape /\ S # BadShape /\ InvShape(S) = BadShape
                 THEN "LinAlgError" ELSE "ValueError"
    IN  IF x_hat = BadShape THEN [raised |-> error, engine |-> e]
        ELSE IF P = BadShape
             THEN [raised |-> error, engine |-> [e EXCEPT !.x_hat = x_hat]]
             ELSE [raised |-> "none",
                   engine |-> [e EXCEPT !.x_hat = x_hat, !.P = P]]

\* a caller constructs an engine of its own: __init__ stores its arguments,
\* checks nothing and cannot fail
EngineCall ==
    /\ pc = "idle"
    /\ \E a \in ShapeArgs :
          ret' = [ op |-> "CDEPMPolicyEngine", args |-> a, kind |-> "return",
                   value |-> EngineShapes(a), updates |-> 0 ]
    /\ pc' = "returned"
    /\ UNCHANGED <<net, rng, sim, evl, tun, que, watch, ref>>

\* the caller calls kalman_update on the engine it has just constructed
EngineUpdate ==
    /\ pc = "returned"
    /\ ret.op = "CDEPMPolicyEngine" /\ ret.kind = "return"
    /\ LET k == KalmanShapes(ret.value)
       IN  ret' = [ op |-> "kalman_update", args |-> ret.args,
                    kind |-> IF k.raised = "none" THEN "return" ELSE "raise",
                    value |-> IF k.raised = "none" THEN k.engine.x_hat ELSE k.raised,
                    engine |-> k.engine, updates |-> ret.updates + 1 ]
    /\ UNCHANGED <<net, rng, pc, sim, evl, tun, que, watch, ref>>

\* -------------------------------------------------------- evaluate_policy
\* an optional value: <<>> is Python's None, <<x>> is x
NoneOpt == <<>>
Some(x) == <<x>>

\* np.var: the mean of the squared deviations from the mean.  A variance,
\* and so a loss, is kept at the resolution of a square: v stands for
\* v/Scale^2.
Var(xs) ==
    LET n == Len(xs)
        mean == SumSeq(xs) \div n
        sq == [i \in 1 .. n |-> Square(xs[i] - mean)]
        total == SumSat(sq)
    IN  IF total = Inf THEN Inf ELSE total \div n

\* L = Var(pi - target) + lam * Var(u), each variance 0.0 for an empty series
Loss(hist, pi_target) ==
    LET dev == [i \in 1 .. Len(hist.pi_true) |-> hist.pi_true[i] - pi_target]
        var_pi == IF Len(dev) > 0 THEN Var(dev) ELSE 0
        var_u == IF Len(hist.u) > 0 THEN Var(hist.u) ELSE 0
    IN  Add(var_pi, IF var_u = Inf THEN Inf ELSE Mul(Lam, var_u))

\* the arguments evaluate_policy hands to simulate_cdpm (Q, R defaulted)
EvalSimArgs(a) ==
    [ T |-> a.T, Kp |-> a.Kp, Ki |-> a.Ki, Kd |-> a.Kd,
      pi_target |-> a.pi_target, channel_sigma |-> a.channel_sigma,
      Q |-> DefaultQ, R |-> DefaultR, seed |-> a.seed ]

\* simulate_cdpm's loop run k iterations on from frame s and global state r
\* (with the default Q and R, S is never singular)
RECURSIVE RunSim(_, _, _)
RunSim(s, r, k) ==
    IF k <= 0 THEN [frame |-> s, rng |-> r]
    ELSE LET b == SimBody(s, r) IN RunSim(b.frame, b.rng, k - 1)

\* evaluate_policy run alone, start to end, entered in global state r0:
\* the (loss, hist) it returns
StandaloneEval(a, r0) ==
    LET s0 == SimFrame(EvalSimArgs(a), "evaluate_policy", r0)
        run == RunSim(s0, SeedGlobal(a.seed, r0), a.T)
    IN  [ loss |-> Loss(run.frame.history, a.pi_target),
          hist |-> run.frame.history ]

\* entry into evaluate_policy: it calls simulate_cdpm at once
EvalStart(a, caller) ==
    /\ evl' = [active |-> TRUE, caller |-> caller, args |-> a, hist |-> NoneOpt,
               entry |-> EntryGhost(rng),
               reseeded |-> rng # SeedGlobal(a.seed, rng)]
    /\ SimStart(EvalSimArgs(a), "evaluate_policy")

\* a proportional gain large enough for the squares inside np.var to overflow
HugeKp == 50 * Scale
\* the arguments the model calls evaluate_policy with
EvalArgs ==
    [ Kp : {DefaultKp, Scale, HugeKp}, Ki : {0, DefaultKi}, Kd : {0, DefaultKd},
      pi_target : {DefaultTarget}, channel_sigma : {DefaultSigma},
      T : 0 .. MaxT, seed : {None} \cup (1 .. MaxSeed) ]

\* a caller invokes evaluate_policy
EvalCall ==
    /\ pc = "idle"
    /\ \E a \in EvalArgs : EvalStart(a, "top")
    /\ UNCHANGED <<net, tun, que, watch, ref>>

\* ----------------------------------------------------- coarse_grid_search
\* (a variant: an empty grid is searched as the grid of the default gain)
Triples_DefaultForEmpty(Kp_grid, Ki_grid, Kd_grid) ==
    LET kp == IF Kp_grid = <<>> THEN <<DefaultKp>> ELSE Kp_grid
        ki == IF Ki_grid = <<>> THEN <<DefaultKi>> ELSE Ki_grid
        kd == IF Kd_grid = <<>> THEN <<DefaultKd>> ELSE Kd_grid
    IN  [ n \in 1 .. (Len(kp) * Len(ki) * Len(kd)) |->
            << kp[((n - 1) \div (Len(ki) * Len(kd))) + 1],
               ki[(((n - 1) \div Len(kd)) % Len(ki)) + 1],
               kd[((n - 1) % Len(kd)) + 1] >> ]
\* the triples in the order of the nested loops: Kp outermost, Kd innermost
Triples(Kp_grid, Ki_grid, Kd_grid) ==
    LET ni == Len(Ki_grid)
        nd == Len(Kd_grid)
    IN  [ n \in 1 .. (Len(Kp_grid) * ni * nd) |->
            << Kp_grid[((n - 1) \div (ni * nd)) + 1],
               Ki_grid[(((n - 1) \div nd) % ni) + 1],
               Kd_grid[((n - 1) % nd) + 1] >> ]

\* (a variant: an equal loss replaces the best so far too)
Improves_OrEqual(loss, best_loss) == loss <= best_loss
\* `if loss < best_loss`: does this evaluation replace the best so far
Improves(loss, best_loss) == loss < best_loss

TuneFrame(a) ==
    [ active |-> TRUE, args |-> a,
      todo |-> Triples(a.Kp_grid, a.Ki_grid, a.Kd_grid),
      done |-> 0,              \* triples evaluated so far
      best_loss |-> Inf, best_params |-> NoneOpt, best_hist |-> NoneOpt,
      evals |-> <<>>,          \* every evaluation made, in order
      entry |-> EntryGhost(rng) ]

\* (a variant: the seed is not handed on to the evaluations)
TuneEvalArgs_Unseeded(a, p) ==
    [ Kp |-> p[1], Ki |-> p[2], Kd |-> p[3], pi_target |-> a.pi_target,
      channel_sigma |-> a.channel_sigma, T |-> a.T, seed |-> None ]
\* the arguments of the evaluation of triple p
TuneEvalArgs(a, p) ==
    [ Kp |-> p[1], Ki |-> p[2], Kd |-> p[3], pi_target |-> a.pi_target,
      channel_sigma |-> a.channel_sigma, T |-> a.T, seed |-> a.seed ]

\* grids: every sequence of up to MaxGrid Kp values, and the first n <= 2
\* values of the Ki and Kd axes
SeqsUpTo(S, n) == UNION {[1 .. m -> S] : m \in 0 .. n}
KiAxis(n) == [m \in 1 .. n |-> (m - 1) * DefaultKi]
KdAxis(n) == [m \in 1 .. n |-> (m - 1) * DefaultKd]
TuneArgs ==
    [ Kp_grid : SeqsUpTo({DefaultKp, HugeKp}, MaxGrid),
      Ki_grid : {KiAxis(n) : n \in 0 .. 2},
      Kd_grid : {KdAxis(n) : n \in 0 .. 2},
      pi_target : {DefaultTarget}, channel_sigma : {DefaultSigma},
      T : {1, MaxT}, seed : {None} \cup (1 .. MaxSeed) ]

\* a caller invokes coarse_grid_search
TuneCall ==
    /\ pc = "idle"
    /\ \E a \in TuneArgs : tun' = TuneFrame(a)
    /\ pc' = "tune"
    /\ ret' = NoRet
    /\ UNCHANGED <<net, rng, sim, evl, que, watch, ref>>

\* the loops reach the next triple and call evaluate_policy on it
TuneEval ==
    /\ pc = "tune"
    /\ tun.done < Len(tun.todo)
    /\ EvalStart(TuneEvalArgs(tun.args, tun.todo[tun.done + 1]), "tune")
    /\ UNCHANGED <<net, tun, que, watch, ref>>

\* evaluate_policy computes the loss and returns (loss, hist): to the top, or
\* to coarse_grid_search, which keeps it when it improves on the best so far
EvalReturn ==
    /\ pc = "eval"
    /\ LET hist == evl.hist
           loss == Loss(hist, evl.args.pi_target)
       IN  IF evl.caller = "top"
           THEN LET out == [ op |-> "evaluate_policy", args |-> evl.args,
                             kind |-> "return",
                             value |-> [loss |-> loss, hist |-> hist],
                             entry |-> evl.entry ]
                IN  /\ pc' = "returned"
                    /\ ret' = out
                    /\ ref' = Capture(out)
                    /\ tun' = tun
           ELSE LET p == tun.todo[tun.done + 1]
                    better == Improves(loss, tun.best_loss)
                IN  /\ pc' = "tune"
                    /\ tun' = [tun EXCEPT
                          !.done = tun.done + 1,
                          !.best_loss = IF better THEN loss ELSE tun.best_loss,
                          !.best_params =
                              IF better THEN Some(p) ELSE tun.best_params,
                          !.best_hist =
                              IF better THEN Some(hist) ELSE tun.best_hist,
                          !.evals = Append(tun.evals,
                              [ params |-> p, loss |-> loss, hist |-> hist,
                                reseeded |-> evl.reseeded ])]
                    /\ UNCHANGED <<ret, ref>>
    /\ evl' = NoFrame
    /\ UNCHANGED <<net, rng, sim, que, watch>>

\* (a variant: a search that found nothing raises instead of returning)
TuneReturn_RaiseWhenNone ==
    /\ pc = "tune"
    /\ tun.done >= Len(tun.todo)
    /\ LET out == [ op |-> "coarse_grid_search", args |-> tun.args,
                    kind |-> IF tun.best_params = NoneOpt THEN "raise" ELSE "return",
                    value |-> [ best_params |-> tun.best_params,
                                best_loss |-> tun.best_loss,
                                best_hist |-> tun.best_hist ],
                    evals |-> tun.evals, entry |-> tun.entry ]
       IN  /\ ret' = out
           /\ ref' = Capture(out)
    /\ pc' = "returned"
    /\ tun' = NoFrame
    /\ UNCHANGED <<net, rng, sim, evl, que, watch>>

\* `return best_params, best_loss, best_hist`
TuneReturn ==
    /\ pc = "tune"
    /\ tun.done >= Len(tun.todo)
    /\ LET out == [ op |-> "coarse_grid_search", args |-> tun.args,
                    kind |-> "return",
                    value |-> [ best_params |-> tun.best_params,
                                best_loss |-> tun.best_loss,
                                best_hist |-> tun.best_hist ],
                    evals |-> tun.evals, entry |-> tun.entry ]
       IN  /\ ret' = out
           /\ ref' = Capture(out)
    /\ pc' = "returned"
    /\ tun' = NoFrame
    /\ UNCHANGED <<net, rng, sim, evl, que, watch>>

\* --------------------------------------------------- compute_fft_spectrum
\* cos and sin of 2 pi m / n, for the lengths the model transforms
Turn(n, m) ==
    LET c(v) == (v * Scale) \div 1000
        t == CASE n = 1 -> << <<1000, 0>> >>
               [] n = 2 -> << <<1000, 0>>, <<-1000, 0>> >>
               [] n = 3 -> << <<1000, 0>>, <<-500, 866>>, <<-500, -866>> >>
               [] n = 4 -> << <<1000, 0>>, <<0, 1000>>, <<-1000, 0>>, <<0, -1000>> >>
               [] n = 5 -> << <<1000, 0>>, <<309, 951>>, <<-809, 588>>,
                              <<-809, -588>>, <<309, -951>> >>
               [] n = 6 -> << <<1000, 0>>, <<500, 866>>, <<-500, 866>>,
                              <<-1000, 0>>, <<-500, -866>>, <<500, -866>> >>
    IN  [cos |-> c(t[(m % n) + 1][1]), sin |-> c(t[(m % n) + 1][2])]

\* the largest k in lo .. hi with k * k <= v
RECURSIVE RootBetween(_, _, _)
RootBetween(v, lo, hi) ==
    IF lo >= hi THEN lo
    ELSE LET mid == (lo + hi + 1) \div 2
         IN  IF mid * mid <= v THEN RootBetween(v, mid, hi)
             ELSE RootBetween(v, lo, mid - 1)
\* np.abs of the complex number re + i im
ComplexAbs(re, im) == RootBetween(re * re + im * im, 0, Abs(re) + Abs(im))

\* np.mean
Mean(x) == SumSeq(x) \div Len(x)

\* (a variant: the full transform, one bin for every sample)
RfftBins_TwoSided(n) == n
\* the bins of a one-sided transform of n real samples: 0 .. n // 2
RfftBins(n) == (n \div 2) + 1

\* np.fft.rfft: bin k is the sum of x[j] exp(-2 pi i j k / n)
Rfft(x) ==
    LET n == Len(x)
    IN  [ k \in 1 .. RfftBins(n) |->
            [ re |-> SumSeq([j \in 1 .. n |->
                               Mul(x[j], Turn(n, (j - 1) * (k - 1)).cos)]),
              im |-> 0 - SumSeq([j \in 1 .. n |->
                               Mul(x[j], Turn(n, (j - 1) * (k - 1)).sin)]) ] ]
\* np.fft.rfftfreq(n, d): bin k is at k / (d n)
Rfftfreq(n, d) ==
    [k \in 1 .. RfftBins(n) |-> ((k - 1) * Scale * Scale) \div (d * n)]

\* compute_fft_spectrum(series, dt): (freqs, amps)
ComputeFftSpectrum(series, dt) ==
    LET n == Len(series)
        x == [j \in 1 .. n |-> series[j] - Mean(series)]
        fft_vals == Rfft(x)
    IN  IF n = 0 THEN [freqs |-> <<>>, amps |-> <<>>]
        ELSE [ freqs |-> Rfftfreq(n, dt),
               amps |-> [k \in 1 .. Len(fft_vals) |->
                           ComplexAbs(fft_vals[k].re, fft_vals[k].im) \div n] ]

\* the series and time steps the model transforms
SpectrumArgs ==
    [ series : SeqsUpTo({0 - Scale, 0, 2 * Scale}, MaxLen),
      dt : {Scale, Scale \div 4} ]

\* a caller invokes compute_fft_spectrum, which runs and returns
SpectrumCall ==
    /\ pc = "idle"
    /\ \E a \in SpectrumArgs :
          ret' = [ op |-> "compute_fft_spectrum", args |-> a, kind |-> "return",
                   value |-> ComputeFftSpectrum(a.series, a.dt) ]
    /\ pc' = "returned"
    /\ UNCHANGED <<net, rng, sim, evl, tun, que, watch, ref>>

\* --------------------------------------------------------------- networks
\* a directed graph (nx.DiGraph): its nodes, and a weight for every edge
EmptyGraph == [nodes |-> {}, weight |-> <<>>]
\* G.add_edge(u, v, weight = w)
AddEdge(G, u, v, w) ==
    [ nodes |-> G.nodes \cup {u, v},
      weight |-> [e \in (DOMAIN G.weight) \cup {<<u, v>>} |->
                    IF e = <<u, v>> THEN w ELSE G.weight[e]] ]
Edges(G) == DOMAIN G.weight

\* (a variant: the last edge points the wrong way, from Consumer to Retail)
ExampleEdges_LastReversed ==
    << <<"Farm", "Processor", (90 * Scale) \div 100>>,
       <<"Processor", "Distributor", (80 * Scale) \div 100>>,
       <<"Distributor", "Retail", (85 * Scale) \div 100>>,
       <<"Consumer", "Retail", (95 * Scale) \div 100>> >>
\* the edges build_example_supply_chain adds, in order
ExampleEdges ==
    << <<"Farm", "Processor", (90 * Scale) \div 100>>,
       <<"Processor", "Distributor", (80 * Scale) \div 100>>,
       <<"Distributor", "Retail", (85 * Scale) \div 100>>,
       <<"Retail", "Consumer", (95 * Scale) \div 100>> >>

RECURSIVE AddEdges(_, _)
AddEdges(G, es) ==
    IF es = <<>> THEN G
    ELSE AddEdges(AddEdge(G, Head(es)[1], Head(es)[2], Head(es)[3]), Tail(es))

\* build_example_supply_chain()
BuildExampleSupplyChain == AddEdges(EmptyGraph, ExampleEdges)

\* the sum of the values of a function with a finite domain
RECURSIVE SumFn(_)
SumFn(f) ==
    IF DOMAIN f = {} THEN 0
    ELSE LET x == CHOOSE x \in DOMAIN f : TRUE
         IN  f[x] + SumFn([y \in (DOMAIN f) \ {x} |-> f[y]])

\* nx.degree_centrality: in-degree plus out-degree, over |V| - 1
DegreeCentrality(G) ==
    LET n == Cardinality(G.nodes)
        deg(v) == Cardinality({e \in Edges(G) : e[1] = v})
                  + Cardinality({e \in Edges(G) : e[2] = v})
    IN  [v \in G.nodes |-> IF n <= 1 THEN Scale ELSE (deg(v) * Scale) \div (n - 1)]

\* the nodes at k edges from s and no fewer
RECURSIVE Layer(_, _, _)
Layer(G, s, k) ==
    IF k = 0 THEN {s}
    ELSE LET prev == Layer(G, s, k - 1)
             seen == UNION {Layer(G, s, j) : j \in 0 .. (k - 1)}
         IN  {v \in G.nodes : (\E u \in prev : <<u, v>> \in Edges(G))} \ seen
\* the length of a shortest path from s to t, None if there is no path
Dist(G, s, t) ==
    LET ks == {k \in 0 .. Cardinality(G.nodes) : t \in Layer(G, s, k)}
    IN  IF ks = {} THEN None ELSE CHOOSE k \in ks : TRUE
\* the number of shortest paths from s to t
RECURSIVE Sigma(_, _, _)
Sigma(G, s, t) ==
    IF s = t THEN 1
    ELSE IF Dist(G, s, t) = None THEN 0
    ELSE LET preds == {u \in G.nodes : /\ <<u, t>> \in Edges(G)
                                        /\ Dist(G, s, u) # None
                                        /\ Dist(G, s, u) + 1 = Dist(G, s, t)}
         IN  SumFn([u \in preds |-> Sigma(G, s, u)])

\* nx.betweenness_centrality (normalized, unweighted, endpoints excluded):
\* over the ordered pairs (s, t) around v, the fraction of the shortest
\* s-t paths that pass through v, times 1 / ((n - 1)(n - 2)) when n > 2
BetweennessCentrality(G) ==
    LET n == Cardinality(G.nodes)
        through(s, v, t) ==
            IF /\ Dist(G, s, t) # None /\ Dist(G, s, v) # None /\ Dist(G, v, t) # None
               /\ Dist(G, s, v) + Dist(G, v, t) = Dist(G, s, t)
            THEN (Sigma(G, s, v) * Sigma(G, v, t) * Scale) \div Sigma(G, s, t)
            ELSE 0
        raw(v) ==
            LET pairs == {p \in (G.nodes \ {v}) \X (G.nodes \ {v}) : p[1] # p[2]}
            IN  SumFn([p \in pairs |-> through(p[1], v, p[2])])
    IN  [v \in G.nodes |->
            IF n <= 2 THEN raw(v) ELSE raw(v) \div ((n - 1) * (n - 2))]

\* a caller invokes build_example_supply_chain
BuildCall ==
    /\ pc = "idle"
    /\ ret' = [ op |-> "build_example_supply_chain", kind |-> "return",
                value |-> BuildExampleSupplyChain ]
    /\ pc' = "returned"
    /\ UNCHANGED <<net, rng, sim, evl, tun, que, watch, ref>>

\* the caller hands the graph it got to compute_basic_centrality
CentralityCall ==
    /\ pc = "returned"
    /\ ret.op = "build_example_supply_chain"
    /\ ret' = [ op |-> "compute_basic_centrality", args |-> ret.value,
                kind |-> "return",
                value |-> [ degree_c |-> DegreeCentrality(ret.value),
                            betweenness_c |-> BetweennessCentrality(ret.value) ] ]
    /\ UNCHANGED <<net, rng, pc, sim, evl, tun, que, watch, ref>>

\* ------------------------------------------- the graph built from a dataset
\* the cells a DataFrame column can hold: a string, an integer, or NaN
StrCell(s) == [t |-> "str", v |-> s]
IntCell(i) == [t |-> "int", v |-> i]
NaN == [t |-> "nan", v |-> ""]
\* str(cell), for a string and for an integer of one digit
Str(c) ==
    IF c.t = "str" THEN c.v
    ELSE <<"0", "1", "2", "3", "4", "5", "6", "7", "8", "9">>[c.v + 1]
\* the rows of the dataset: the cell of the source and the one of the target
SourceCells == {StrCell("a"), StrCell("b"), StrCell(""), IntCell(7), StrCell("7"), NaN}
TargetCells == {StrCell("a"), StrCell("b"), StrCell("")}
Rows == SourceCells \X TargetCells
\* .dropna() takes out every row with a missing cell
Dropped(row) == row[1] = NaN \/ row[2] = NaN

\* (a variant: every occurrence adds the edge anew, with weight 1)
AccumulateEdge_AddAnew(G, u, v) ==
    IF u # "" /\ v # "" THEN AddEdge(G, u, v, 1) ELSE G
\* the body of the loop over the rows: an edge that is there gains 1 of
\* weight, another is added with weight 1, and an empty label adds nothing
AccumulateEdge(G, u, v) ==
    IF u # "" /\ v # ""
    THEN IF <<u, v>> \in Edges(G)
         THEN [G EXCEPT !.weight[<<u, v>>] = @ + 1]
         ELSE AddEdge(G, u, v, 1)
    ELSE G

\* the frame of the loop: the graph so far, the label pairs the body has
\* been run on, in order, and the number of rows dropna has taken out
NetFrame == [active |-> TRUE, G |-> EmptyGraph, rows |-> <<>>, dropped |-> 0]

\* render of the network tab starts to build the graph of a dataset
NetBuildCall ==
    /\ pc = "idle"
    /\ net' = NetFrame
    /\ pc' = "build"
    /\ UNCHANGED <<rng, sim, evl, tun, que, ret, watch, ref>>

\* the next row of the dataset: dropped, or run through the body of the loop
NetBuildRow ==
    /\ pc = "build"
    /\ Len(net.rows) + net.dropped < MaxRows
    /\ \E row \in Rows :
          net' = IF Dropped(row)
                 THEN [net EXCEPT !.dropped = @ + 1]
                 ELSE LET u == Str(row[1])
                          v == Str(row[2])
                      IN  [net EXCEPT !.G = AccumulateEdge(net.G, u, v),
                                      !.rows = Append(@, <<u, v>>)]
    /\ UNCHANGED <<rng, pc, sim, evl, tun, que, ret, watch, ref>>

\* the rows are through: render gives up on a graph without nodes, and
\* computes the centralities of any other
NetBuildReturn ==
    /\ pc = "build"
    /\ ret' = IF net.G.nodes = {}
              THEN [ op |-> "render_network", kind |-> "error",
                     graph |-> net.G, rows |-> net.rows,
                     value |-> "No valid edges found" ]
              ELSE [ op |-> "render_network", kind |-> "return",
                     graph |-> net.G, rows |-> net.rows,
                     value |-> [ degree_c |-> DegreeCentrality(net.G),
                                 betweenness_c |-> BetweennessCentrality(net.G) ] ]
    /\ net' = NoFrame
    /\ pc' = "returned"
    /\ UNCHANGED <<rng, sim, evl, tun, que, watch, ref>>

\* ---------------------------------------------------------- specification
Init ==
    /\ rng \in RngStates       \* numpy seeds the stream from OS entropy
    /\ pc = "idle"
    /\ sim = NoFrame
    /\ evl = NoFrame
    /\ tun = NoFrame
    /\ que = NoFrame
    /\ net = NoFrame
    /\ ret = NoRet
    /\ watch = NoWatch
    /\ ref = NoRef

Next ==
    \/ SimCall
    \/ SimStep
    \/ SimReturn
    \/ QueueCall
    \/ QueueStep
    \/ QueueReturn
    \/ EvalCall
    \/ EvalReturn
    \/ TuneCall
    \/ TuneEval
    \/ TuneReturn
    \/ EngineCall
    \/ EngineUpdate
    \/ SpectrumCall
    \/ BuildCall
    \/ CentralityCall
    \/ NetBuildCall
    \/ NetBuildRow
    \/ NetBuildReturn
    \/ ExternalDraw
    \/ Receive

Spec == Init /\ [][Next]_vars

\* ------------------------------------------------ repeated, watched calls
\* One seeded call is watched: it is made again and again, from whatever
\* state the global stream is in, and its first outcome is kept in ref.
\* Between two calls the stream is drawn from any number of times, which
\* is all another call can do to the state the calls share.
WatchedCalls ==
    {[op |-> "simulate_cdpm", args |-> a] : a \in {x \in SimArgs : x.seed # None}}
    \cup {[op |-> "simulate_mm1_queue", args |-> a] :
              a \in {x \in QueueArgs : x.seed # None}}
    \cup {[op |-> "evaluate_policy", args |-> a] :
              a \in {x \in EvalArgs : x.seed # None}}

InitRepro ==
    /\ rng \in RngStates
    /\ pc = "idle"
    /\ sim = NoFrame
    /\ evl = NoFrame
    /\ tun = NoFrame
    /\ que = NoFrame
    /\ net = NoFrame
    /\ ret = NoRet
    /\ watch \in WatchedCalls
    /\ ref = NoRef

\* the watched simulate_cdpm call is made
SimCallWatched ==
    /\ pc = "idle"
    /\ watch.op = "simulate_cdpm"
    /\ SimStart(watch.args, "top")
    /\ UNCHANGED <<net, evl, tun, que, watch, ref>>

\* the watched simulate_mm1_queue call is made
QueueCallWatched ==
    /\ pc = "idle"
    /\ watch.op = "simulate_mm1_queue"
    /\ QueueStart(watch.args)
    /\ UNCHANGED <<net, sim, evl, tun, watch, ref>>

\* the watched evaluate_policy call is made
EvalCallWatched ==
    /\ pc = "idle"
    /\ watch.op = "evaluate_policy"
    /\ EvalStart(watch.args, "top")
    /\ UNCHANGED <<net, tun, que, watch, ref>>

\* coarse_grid_search is called on the singleton grid of the watched
\* evaluate_policy call's gains, with its target, sigma, T and seed
SingletonArgs(a) ==
    [ Kp_grid |-> <<a.Kp>>, Ki_grid |-> <<a.Ki>>, Kd_grid |-> <<a.Kd>>,
      pi_target |-> a.pi_target, channel_sigma |-> a.channel_sigma,
      T |-> a.T, seed |-> a.seed ]

TuneCallSingleton ==
    /\ pc = "idle"
    /\ watch.op = "evaluate_policy"
    /\ tun' = TuneFrame(SingletonArgs(watch.args))
    /\ pc' = "tune"
    /\ ret' = NoRet
    /\ UNCHANGED <<net, rng, sim, evl, que, watch, ref>>

NextRepro ==
    \/ SimCallWatched
    \/ SimStep
    \/ SimReturn
    \/ QueueCallWatched
    \/ QueueStep
    \/ QueueReturn
    \/ EvalCallWatched
    \/ EvalReturn
    \/ TuneCallSingleton
    \/ TuneEval
    \/ TuneReturn
    \/ ExternalDraw
    \/ Receive

SpecRepro == InitRepro /\ [][NextRepro]_vars

\* ------------------------------------------------ two calls, interleaved
\* Two threads of one process: one makes a seeded simulate_cdpm call, the
\* other a seeded simulate_mm1_queue call.  Each has its own frame; numpy's
\* global stream is the process's.  A thread is switched out between two
\* iterations of its loop (it can be anywhere; these switches are enough).
\* ret holds what each thread's call handed back.
NoRets == [cdpm |-> NoRet, queue |-> NoRet]

ThreadSimArgs ==
    [ T : 1 .. MaxT, Kp : {DefaultKp}, Ki : {DefaultKi}, Kd : {DefaultKd},
      pi_target : {DefaultTarget}, channel_sigma : {DefaultSigma},
      Q : {DefaultQ}, R : {DefaultR}, seed : 1 .. MaxSeed ]
ThreadQueueArgs ==
    [ lmbda : {Scale}, mu : {Scale, 2 * Scale},
      T : {k * Scale : k \in 1 .. MaxHorizon}, seed : 1 .. MaxSeed ]

\* simulate_mm1_queue's loop run on from frame q and global state r to its end
RECURSIVE RunQueue(_, _)
RunQueue(q, r) ==
    IF q.t < q.args.T
    THEN LET b == QueueBody(q, r) IN RunQueue(b.frame, b.rng)
    ELSE q

\* what a seeded simulate_cdpm call returns when it runs alone
AloneSim(a) ==
    RunSim(SimFrame(a, "top", None), SeedState(a.seed), a.T).frame.history
\* what a seeded simulate_mm1_queue call returns when it runs alone
AloneQueue(a) ==
    LET q == RunQueue(QueueFrame(a, None), SeedState(a.seed))
    IN  [times |-> q.times, qs |-> q.qs]

InitThreads ==
    /\ rng \in RngStates
    /\ pc = "threads"
    /\ sim = NoFrame
    /\ evl = NoFrame
    /\ tun = NoFrame
    /\ que = NoFrame
    /\ net = NoFrame
    /\ ret = NoRets
    /\ watch = NoWatch
    /\ ref = NoRef

\* the first thread enters simulate_cdpm
ThreadSimCall ==
    /\ pc = "threads" /\ sim = NoFrame /\ ret.cdpm = NoRet
    /\ \E a \in ThreadSimArgs :
          /\ rng' = SeedGlobal(a.seed, rng)
          /\ sim' = SimFrame(a, "top", None)
    /\ UNCHANGED <<net, pc, evl, tun, que, ret, watch, ref>>

\* the first thread runs one iteration of simulate_cdpm's loop
ThreadSimStep ==
    /\ pc = "threads" /\ sim # NoFrame
    /\ sim.n < sim.args.T
    /\ LET b == SimBody(sim, rng)
       IN  /\ rng' = b.rng
           /\ IF b.raised
              THEN /\ sim' = NoFrame
                   /\ ret' = [ret EXCEPT !.cdpm =
                                 [ op |-> "simulate_cdpm", args |-> sim.args,
                                   kind |-> "raise", value |-> "LinAlgError" ]]
              ELSE /\ sim' = b.frame
                   /\ ret' = ret
    /\ UNCHANGED <<net, pc, evl, tun, que, watch, ref>>

\* the first thread's simulate_cdpm returns its history
ThreadSimReturn ==
    /\ pc = "threads" /\ sim # NoFrame
    /\ sim.n >= sim.args.T
    /\ ret' = [ret EXCEPT !.cdpm =
                  [ op |-> "simulate_cdpm", args |-> sim.args,
                    kind |-> "return", value |-> sim.history ]]
    /\ sim' = NoFrame
    /\ UNCHANGED <<net, rng, pc, evl, tun, que, watch, ref>>

\* the second thread enters simulate_mm1_queue
ThreadQueueCall ==
    /\ pc = "threads" /\ que = NoFrame /\ ret.queue = NoRet
    /\ \E a \in ThreadQueueArgs :
          /\ rng' = SeedGlobal(a.seed, rng)
          /\ que' = QueueFrame(a, None)
    /\ UNCHANGED <<net, pc, sim, evl, tun, ret, watch, ref>>

\* the second thread runs one iteration of simulate_mm1_queue's loop
ThreadQueueStep ==
    /\ pc = "threads" /\ que # NoFrame
    /\ que.t < que.args.T
    /\ que' = QueueBody(que, rng).frame
    /\ rng' = QueueBody(que, rng).rng
    /\ UNCHANGED <<net, pc, sim, evl, tun, ret, watch, ref>>

\* the second thread's simulate_mm1_queue returns its trace
ThreadQueueReturn ==
    /\ pc = "threads" /\ que # NoFrame
    /\ ~(que.t < que.args.T)
    /\ ret' = [ret EXCEPT !.queue =
                  [ op |-> "simulate_mm1_queue", args |-> que.args,
                    kind |-> "return",
                    value |-> [times |-> que.times, qs |-> que.qs] ]]
    /\ que' = NoFrame
    /\ UNCHANGED <<net, rng, pc, sim, evl, tun, watch, ref>>

NextThreads ==
    \/ ThreadSimCall
    \/ ThreadSimStep
    \/ ThreadSimReturn
    \/ ThreadQueueCall
    \/ ThreadQueueStep
    \/ ThreadQueueReturn

SpecThreads == InitThreads /\ [][NextThreads]_vars

\* ================================================================ properties

\* the effective control recorded for the period before t (0 before any)
LaggedControl(h, t) == IF t = 1 THEN 0 ELSE h.u_eff[t - 1]
\* the true state recorded for the period before t (the origin before any)
LaggedState(h, t) ==
    IF t = 1 THEN <<0, 0>> ELSE <<h.pi_true[t - 1], h.y_true[t - 1]>>

\* C1: in every period t of simulate_cdpm the true state recorded is
\* A x_true(t-1) + B u_eff(t-1) + w(t), with u_eff(t-1) the effective
\* control recorded for the period before (0 in the first period), and
\* kalman_update of period t is handed that same u_eff(t-1).
C1_ActuationLag ==
    pc = "sim" =>
        \A t \in 1 .. sim.n :
            LET h == sim.history
                u == LaggedControl(h, t)
            IN  /\ sim.u_plant[t] = u
                /\ sim.u_kf[t] = u
                /\ <<h.pi_true[t], h.y_true[t]>> =
                       VecAdd(VecAdd(MatVec(DefaultA, LaggedState(h, t)),
                                     VecScale(u, DefaultB)), sim.w[t])

\* C1's case: two periods are done, and the effective control of the first
\* differs from 0, from the first designed control and from both controls
\* of the second period, so that the lag can be told from any of them.
C1_Witness ==
    /\ pc = "sim"
    /\ sim.n >= 2
    /\ LET h == sim.history
       IN  /\ h.u_eff[1] # 0
           /\ h.u_eff[1] # h.u[1]
           /\ h.u_eff[1] # h.u[2]
           /\ h.u_eff[1] # h.u_eff[2]
           /\ sim.u_plant[2] = h.u_eff[1]


\* C2: a simulate_cdpm or simulate_mm1_queue call with a seed ends as the
\* first call with the same arguments and seed ended, with the same
\* outcome element for element, whatever was drawn from the global stream
\* before it and between the two.
C2_SeededCallsRepeat ==
    ( /\ pc = "returned"
      /\ ref # NoRef
      /\ ret.op \in {"simulate_cdpm", "simulate_mm1_queue"}
      /\ ret.op = ref.op
      /\ ret.args = ref.args )
    => (ret.kind = ref.kind /\ ret.value = ref.value)

\* C2's case: a seeded simulate_cdpm run of MaxT noisy periods has ended a
\* second time, having been entered in another global state than the first.
C2_Witness ==
    /\ pc = "returned"
    /\ ref # NoRef
    /\ ret.op = "simulate_cdpm"
    /\ ret.args = ref.args
    /\ ret.args.seed # None
    /\ ret.args.channel_sigma > 0
    /\ ret.args.Q > 0
    /\ ret.kind = "return"
    /\ Len(ret.value.u_eff) = MaxT
    /\ ret.entry.other
    /\ ret.value = ref.value

\* C3: with a seed, the loss and the history coarse_grid_search gets for a
\* triple are those of evaluate_policy run alone on that triple with the
\* same seed, entered in any global state: wherever the triple stands in
\* the order and however many triples were evaluated before it.  (Stated of
\* the evaluation that has just come back, which every evaluation once is.)
C3_TunerEvalsAsStandalone ==
    (pc = "tune" /\ tun.args.seed # None) =>
        \A i \in {Len(tun.evals)} \ {0} : \A r0 \in RngStates :
            LET e == tun.evals[i]
                alone == StandaloneEval(
                    [ Kp |-> e.params[1], Ki |-> e.params[2], Kd |-> e.params[3],
                      pi_target |-> tun.args.pi_target,
                      channel_sigma |-> tun.args.channel_sigma,
                      T |-> tun.args.T, seed |-> tun.args.seed ], r0)
            IN  e.loss = alone.loss /\ e.hist = alone.hist

\* C3's case: a seeded search has evaluated three triples or more; the third
\* was entered in a state other than the seeded one, ran MaxT periods and
\* got another loss than the first.
C3_Witness ==
    /\ pc = "tune"
    /\ tun.args.seed # None
    /\ Len(tun.evals) >= 3
    /\ tun.evals[3].reseeded
    /\ Len(tun.evals[3].hist.u) = MaxT
    /\ tun.evals[3].loss # tun.evals[1].loss
    /\ tun.evals[3].params # tun.evals[1].params

\* the triples as three nested loops meet them, written out loop by loop
InnerLoop(kp, ki, Kd_grid) == [k \in 1 .. Len(Kd_grid) |-> <<kp, ki, Kd_grid[k]>>]
RECURSIVE MiddleLoop(_, _, _, _)
MiddleLoop(kp, Ki_grid, Kd_grid, j) ==
    IF j > Len(Ki_grid) THEN <<>>
    ELSE InnerLoop(kp, Ki_grid[j], Kd_grid) \o MiddleLoop(kp, Ki_grid, Kd_grid, j + 1)
RECURSIVE OuterLoop(_, _, _, _)
OuterLoop(Kp_grid, Ki_grid, Kd_grid, i) ==
    IF i > Len(Kp_grid) THEN <<>>
    ELSE MiddleLoop(Kp_grid[i], Ki_grid, Kd_grid, 1)
             \o OuterLoop(Kp_grid, Ki_grid, Kd_grid, i + 1)

\* C4: coarse_grid_search evaluates the triples of the product in nested
\* order (Kp outermost, Kd innermost), each exactly once and all of them;
\* the best_loss it returns is the least loss of all, and best_params and
\* best_hist are those of the first triple in that order with that loss.
C4_FirstMinimumInNestedOrder ==
    (pc = "returned" /\ ret.op = "coarse_grid_search") =>
        LET ev == ret.evals
            order == OuterLoop(ret.args.Kp_grid, ret.args.Ki_grid, ret.args.Kd_grid, 1)
            best == ret.value
        IN  /\ Len(ev) = Len(ret.args.Kp_grid) * Len(ret.args.Ki_grid)
                              * Len(ret.args.Kd_grid)
            /\ Len(ev) = Len(order)
            /\ \A n \in 1 .. Len(ev) :
                   ev[n].params = order[n] /\ best.best_loss <= ev[n].loss
            /\ Len(ev) > 0 =>
                   \E n \in 1 .. Len(ev) :
                       /\ ev[n].loss = best.best_loss
                       /\ \A m \in 1 .. (n - 1) : ev[m].loss > best.best_loss
                       /\ best.best_params = Some(ev[n].params)
                       /\ best.best_hist = Some(ev[n].hist)

\* C5: coarse_grid_search on the singleton grid ({Kp0}, {Ki0}, {Kd0})
\* returns best_params = (Kp0, Ki0, Kd0) and, as best_loss, the loss one
\* evaluate_policy call on (Kp0, Ki0, Kd0) returned for the same seed,
\* target, channel_sigma and T.
C5_SingletonGridIsOneEvaluation ==
    ( /\ pc = "returned"
      /\ ret.op = "coarse_grid_search"
      /\ ref # NoRef
      /\ ref.op = "evaluate_policy"
      /\ ret.args = SingletonArgs(ref.args) )
    => /\ ret.value.best_params = Some(<<ref.args.Kp, ref.args.Ki, ref.args.Kd>>)
       /\ ret.value.best_loss = ref.value.loss

\* some grid of the search's arguments a is empty
SomeGridEmpty(a) == a.Kp_grid = <<>> \/ a.Ki_grid = <<>> \/ a.Kd_grid = <<>>

\* C6: with an empty Kp, Ki or Kd grid coarse_grid_search runs no
\* simulation and returns, raising nothing, best_params = None and
\* best_hist = None.
C6_EmptyGridReturnsNone ==
    /\ (tun # NoFrame /\ SomeGridEmpty(tun.args)) =>
           (pc = "tune" /\ tun.evals = <<>> /\ sim = NoFrame /\ evl = NoFrame)
    /\ (pc = "returned" /\ ret.op = "coarse_grid_search" /\ SomeGridEmpty(ret.args)) =>
           /\ ret.kind = "return"
           /\ ret.value.best_params = NoneOpt
           /\ ret.value.best_hist = NoneOpt
           /\ ret.evals = <<>>

\* C6's case: a search whose Ki grid alone is empty has returned.
C6_Witness ==
    /\ pc = "returned"
    /\ ret.op = "coarse_grid_search"
    /\ Len(ret.args.Kp_grid) = MaxGrid
    /\ ret.args.Ki_grid = <<>>
    /\ ret.args.Kd_grid # <<>>
    /\ ret.value.best_params = NoneOpt

\* C7, as claimed: coarse_grid_search called with an empty grid ends by
\* raising an error to its caller.
C7_EmptyGridRaises ==
    (pc = "returned" /\ ret.op = "coarse_grid_search" /\ SomeGridEmpty(ret.args)) =>
        ret.kind = "raise"

\* C7, amended: coarse_grid_search called with an empty grid raises no
\* error; it returns to its caller, with best_loss = +infinity.
C7_EmptyGridReturnsInf ==
    (pc = "returned" /\ ret.op = "coarse_grid_search" /\ SomeGridEmpty(ret.args)) =>
        (ret.kind = "return" /\ ret.value.best_loss = Inf)

\* C7's case: a search whose Kp grid is empty, the others not, has ended.
C7_Witness ==
    /\ pc = "returned"
    /\ ret.op = "coarse_grid_search"
    /\ ret.args.Kp_grid = <<>>
    /\ ret.args.Ki_grid # <<>>
    /\ ret.args.Kd_grid # <<>>
    /\ ret.value.best_loss = Inf

\* every entry of a sequence of queue lengths is a natural number
AllNatural(qs) == \A i \in 1 .. Len(qs) : qs[i] \in Nat

\* C8: in simulate_mm1_queue the queue length is a natural number in every
\* state, and so is every length recorded, whatever the rates and horizon.
C8_QueueLengthNeverNegative ==
    /\ pc = "queue" => (que.queue_length \in Nat /\ AllNatural(que.qs))
    /\ (pc = "returned" /\ ret.op = "simulate_mm1_queue") => AllNatural(ret.value.qs)

\* C8's case: a service completion has emptied the queue, and the loop has
\* gone round again with the queue empty.
C8_Witness ==
    /\ pc = "queue"
    /\ \E i \in 1 .. (Len(que.qs) - 2) :
           /\ que.qs[i] = 1
           /\ que.qs[i + 1] = 0
           /\ que.service_drawn[i]
           /\ ~que.service_drawn[i + 1]

\* times and lengths as simulate_mm1_queue keeps them: of one length,
\* beginning with (0, 0), the times never falling
WellFormedTrace(times, qs) ==
    /\ Len(times) = Len(qs)
    /\ times[1] = 0
    /\ qs[1] = 0
    /\ \A i \in 1 .. (Len(times) - 1) : times[i] <= times[i + 1]

\* C9: simulate_mm1_queue returns times and lengths of equal length, whose
\* first record is (0, 0), with times non-decreasing throughout; the lists
\* are so at every point of the loop as well.
C9_TraceWellFormed ==
    /\ pc = "queue" => WellFormedTrace(que.times, que.qs)
    /\ (pc = "returned" /\ ret.op = "simulate_mm1_queue") =>
           WellFormedTrace(ret.value.times, ret.value.qs)

\* C9's case: a trace of five records or more has been returned, its clock
\* finite and past the horizon, with one step of length 0 in it and one of
\* positive length.
C9_Witness ==
    /\ pc = "returned"
    /\ ret.op = "simulate_mm1_queue"
    /\ LET times == ret.value.times
       IN  /\ Len(times) >= 5
           /\ times[Len(times)] < Inf
           /\ times[Len(times)] >= ret.args.T
           /\ \E i \in 1 .. (Len(times) - 1) : times[i] = times[i + 1]
           /\ \E i \in 1 .. (Len(times) - 1) : times[i] < times[i + 1]

\* the arguments the queue simulator is said to refuse
BadQueueArgs(a) == a.lmbda < 0 \/ a.mu < 0 \/ a.T <= 0

\* C10, as claimed: simulate_mm1_queue called with a negative rate or with
\* T <= 0 ends by raising an error, and returns no trace.
C10_BadArgsRaise ==
    (pc = "returned" /\ ret.op = "simulate_mm1_queue" /\ BadQueueArgs(ret.args)) =>
        ret.kind = "raise"

\* C10, amended: simulate_mm1_queue called with a negative rate or with
\* T <= 0 raises nothing and returns a trace.  For T <= 0 the trace is the
\* first record alone; a negative rate is taken as a rate of 0, so that,
\* for T > 0, a negative lmbda gives times = [0, inf], lengths = [0, 0], and
\* a negative mu a trace for which no service time was ever drawn.
C10_BadArgsReturnTrace ==
    (pc = "returned" /\ ret.op = "simulate_mm1_queue" /\ BadQueueArgs(ret.args)) =>
        /\ ret.kind = "return"
        /\ ret.args.T <= 0 => ret.value = [times |-> <<0>>, qs |-> <<0>>]
        /\ (ret.args.T > 0 /\ ret.args.lmbda < 0) =>
               ret.value = [times |-> <<0, Inf>>, qs |-> <<0, 0>>]
        /\ (ret.args.T > 0 /\ ret.args.mu < 0) =>
               \A i \in 1 .. Len(ret.service_drawn) : ~ret.service_drawn[i]

\* C10's case: a call with a negative service rate, a positive arrival rate
\* and a positive horizon has returned a trace of three records or more.
C10_Witness ==
    /\ pc = "returned"
    /\ ret.op = "simulate_mm1_queue"
    /\ ret.args.mu < 0
    /\ ret.args.lmbda > 0
    /\ ret.args.T > 0
    /\ ret.kind = "return"
    /\ Len(ret.value.qs) >= 3

\* C11: in simulate_mm1_queue with lmbda = 0 and T > 0, whatever mu, every
\* queue length recorded is 0, while the call runs and in what it returns.
C11_NoArrivalsNoQueue ==
    /\ (pc = "queue" /\ que.args.lmbda = 0 /\ que.args.T > 0)
         => (\A i \in 1 .. Len(que.qs) : que.qs[i] = 0)
    /\ ( /\ pc = "returned" /\ ret.op = "simulate_mm1_queue"
         /\ ret.args.lmbda = 0 /\ ret.args.T > 0 )
         => (ret.kind = "return" /\ \A i \in 1 .. Len(ret.value.qs) : ret.value.qs[i] = 0)

\* a call with lmbda = 0, a positive mu and T > 0 has returned, its loop
\* having run: an event was recorded after the first
C11_Witness ==
    /\ pc = "returned" /\ ret.op = "simulate_mm1_queue"
    /\ ret.args.lmbda = 0 /\ ret.args.mu > 0 /\ ret.args.T > 0
    /\ Len(ret.value.qs) >= 2

NonDecreasing(s) == \A i \in 1 .. Len(s) - 1 : s[i] <= s[i + 1]

\* C12: in simulate_mm1_queue with mu = 0 and lmbda > 0 the recorded lengths
\* never go down from one record to the next.
C12_NoServiceNoDecrease ==
    /\ (pc = "queue" /\ que.args.mu = 0 /\ que.args.lmbda > 0)
         => NonDecreasing(que.qs)
    /\ ( /\ pc = "returned" /\ ret.op = "simulate_mm1_queue"
         /\ ret.args.mu = 0 /\ ret.args.lmbda > 0 )
         => (ret.kind = "return" /\ NonDecreasing(ret.value.qs))

\* a call with mu = 0 and lmbda > 0 has returned after at least two
\* arrivals, the second joining a queue that was not empty
C12_Witness ==
    /\ pc = "returned" /\ ret.op = "simulate_mm1_queue"
    /\ ret.args.mu = 0 /\ ret.args.lmbda > 0
    /\ Len(ret.value.qs) >= 3
    /\ ret.value.qs[3] = 2

\* a closed-loop run without any noise: channel_sigma = 0 and Q = R = 0
Degenerate(a) == a.channel_sigma = 0 /\ a.Q = 0 /\ a.R = 0

\* the estimate recorded in every period of h is the true state recorded
EstimateIsTruth(h) ==
    \A t \in 1 .. Len(h.pi_true) :
        h.pi_hat[t] = h.pi_true[t] /\ h.y_hat[t] = h.y_true[t]

\* C13, as claimed: a simulate_cdpm call with channel_sigma = 0 and Q = R = 0
\* ends by returning a history of all T periods, in each of which the
\* estimate is the true state.
C13_DegenerateRunTracks ==
    ( /\ pc = "returned" /\ ret.op = "simulate_cdpm"
      /\ Degenerate(ret.args) )
    => /\ ret.kind = "return"
       /\ Len(ret.value.pi_hat) = ret.args.T
       /\ EstimateIsTruth(ret.value)

\* C14: with channel_sigma = 0 the effective control recorded in every
\* period of simulate_cdpm is the designed control recorded in it, while the
\* call runs and in the history it returns.
C14_SilentChannelPassesControl ==
    /\ (pc = "sim" /\ sim.args.channel_sigma = 0)
         => (\A t \in 1 .. Len(sim.history.u) :
                sim.history.u_eff[t] = sim.history.u[t])
    /\ ( /\ pc = "returned" /\ ret.op = "simulate_cdpm"
         /\ ret.kind = "return" /\ ret.args.channel_sigma = 0 )
         => /\ Len(ret.value.u_eff) = Len(ret.value.u)
            /\ \A t \in 1 .. Len(ret.value.u) : ret.value.u_eff[t] = ret.value.u[t]

\* a run of MaxT periods with channel_sigma = 0 and the default Q and R has
\* returned, its designed control changing from one period to the next
C14_Witness ==
    /\ pc = "returned" /\ ret.op = "simulate_cdpm" /\ ret.kind = "return"
    /\ ret.args.channel_sigma = 0 /\ ret.args.Q = DefaultQ /\ ret.args.R = DefaultR
    /\ Len(ret.value.u) = MaxT
    /\ ret.value.u[1] # 0 /\ ret.value.u[MaxT] # ret.value.u[1]

\* Q = q I or R = r I is not positive semi-definite: q < 0 or r < 0
NotPSD(a) == a.Q < 0 \/ a.R < 0

\* C15, as claimed: a simulate_cdpm call given a Q or an R that is not
\* positive semi-definite never runs a loop step or records anything, and
\* ends by raising a configuration error before its first period.
C15_NotPSDRaisesUpFront ==
    /\ (pc = "sim" /\ NotPSD(sim.args))
         => (sim.n = 0 /\ sim.w = <<>> /\ sim.history = EmptyHistory)
    /\ (pc = "returned" /\ ret.op = "simulate_cdpm" /\ NotPSD(ret.args))
         => (ret.kind = "raise" /\ ret.value = "ConfigError" /\ ret.n = 0)

\* the dimensions are mutually conformable: A n x n, B n x 1, C m x n,
\* Q n x n, R m x m
Conformable(a) ==
    /\ a.A[1] = a.A[2] /\ a.B = <<a.A[1], 1>> /\ a.C[2] = a.A[1]
    /\ a.Q = a.A /\ a.R = <<a.C[1], a.C[1]>>

\* C16, as claimed: constructing a CDEPMPolicyEngine from matrices whose
\* dimensions are not mutually conformable raises, and no kalman_update is
\* ever run on such an engine.
C16_NotConformableRaises ==
    /\ (pc = "returned" /\ ret.op = "CDEPMPolicyEngine" /\ ~Conformable(ret.args))
         => ret.kind = "raise"
    /\ (pc = "returned" /\ ret.op = "kalman_update") => Conformable(ret.args)

\* C17: whenever the innovation covariance S = C P_pred C^T + R of the next
\* kalman_update is singular, the update raises (numpy's LinAlgError) and
\* the call ends with it: no estimate is computed from a singular S, and
\* the loop goes no further.
C17_SingularUpdateRaises ==
    [][ ( /\ pc = "sim" /\ sim.n < sim.args.T
          /\ RawDet(InnovationCov(sim.engine)) = 0 )
        => ( /\ pc' = "returned" /\ sim' = NoFrame
             /\ ret'.op = "simulate_cdpm"
             /\ ret'.kind = "raise" /\ ret'.value = "LinAlgError" ) ]_vars

\* a run has ended with LinAlgError in its second period: the first update
\* went through and left a covariance from which S came out singular
C17_Witness ==
    /\ pc = "returned" /\ ret.op = "simulate_cdpm"
    /\ ret.kind = "raise" /\ ret.value = "LinAlgError" /\ ret.n = 1

\* C18, as claimed: of two seeded calls made by two threads and interleaved
\* in any way, each hands back what it hands back when it runs alone with
\* the same arguments and seed.
C18_InterleavedAsAlone ==
    /\ ret.cdpm # NoRet
         => (ret.cdpm.kind = "return" /\ ret.cdpm.value = AloneSim(ret.cdpm.args))
    /\ ret.queue # NoRet
         => (ret.queue.kind = "return" /\ ret.queue.value = AloneQueue(ret.queue.args))

\* C19: compute_fft_spectrum returns, for a series of n >= 1 samples, freqs
\* and amps of floor(n/2) + 1 entries each, and for the empty series two
\* empty sequences; it never raises.
C19_SpectrumLengths ==
    (pc = "returned" /\ ret.op = "compute_fft_spectrum")
    => /\ ret.kind = "return"
       /\ LET n == Len(ret.args.series)
          IN  IF n = 0
              THEN ret.value.freqs = <<>> /\ ret.value.amps = <<>>
              ELSE /\ Len(ret.value.freqs) = (n \div 2) + 1
                   /\ Len(ret.value.amps) = (n \div 2) + 1

\* the spectrum of a series of three samples has come back, with two bins
\* and some amplitude off the zero frequency
C19_Witness ==
    /\ pc = "returned" /\ ret.op = "compute_fft_spectrum"
    /\ Len(ret.args.series) = 3
    /\ Len(ret.value.amps) = 2
    /\ ret.value.amps[2] > 0 /\ ret.value.freqs[2] > 0

Interior == {"Processor", "Distributor", "Retail"}
Endpoints == {"Farm", "Consumer"}

\* C20: on the graph of build_example_supply_chain, compute_basic_centrality
\* gives every interior node a betweenness above that of both endpoints, and
\* gives the three interior nodes one and the same degree centrality.
C20_ChainCentrality ==
    (pc = "returned" /\ ret.op = "compute_basic_centrality")
    => /\ ret.kind = "return"
       /\ DOMAIN ret.value.betweenness_c = Interior \cup Endpoints
       /\ DOMAIN ret.value.degree_c = Interior \cup Endpoints
       /\ \A i \in Interior : \A e \in Endpoints :
             ret.value.betweenness_c[i] > ret.value.betweenness_c[e]
       /\ \A i, j \in Interior : ret.value.degree_c[i] = ret.value.degree_c[j]

\* the centralities of the example chain have come back: the endpoints lie on
\* no path between others, and the middle node on more than its neighbours
C20_Witness ==
    /\ pc = "returned" /\ ret.op = "compute_basic_centrality"
    /\ ret.args = BuildExampleSupplyChain
    /\ ret.value.betweenness_c["Farm"] = 0
    /\ ret.value.betweenness_c["Distributor"] > ret.value.betweenness_c["Retail"]
    /\ ret.value.degree_c["Processor"] > ret.value.degree_c["Consumer"]

\* the number of times the pair p stands in the sequence rows
Occurrences(rows, p) == Cardinality({i \in 1 .. Len(rows) : rows[i] = p})
Labels == {Str(c) : c \in (SourceCells \cup TargetCells) \ {NaN}}

\* C21: after any prefix of the rows, every edge of the graph carries as its
\* weight the number of times its ordered pair of labels has come by so far,
\* and every pair of non-empty labels that has come by is an edge (the graph
\* holds one weight per ordered pair, so there are no parallel edges).
C21_WeightCountsOccurrences ==
    (pc = "build")
    => /\ Edges(net.G) \subseteq Labels \X Labels
       /\ \A p \in Labels \X Labels :
             /\ p \in Edges(net.G) => net.G.weight[p] = Occurrences(net.rows, p)
             /\ (p[1] # "" /\ p[2] # "" /\ Occurrences(net.rows, p) > 0)
                => p \in Edges(net.G)

\* the pair ("7", "a") has come by twice, and its one edge has weight 2
C21_Witness ==
    /\ pc = "build"
    /\ net.rows = << <<"7", "a">>, <<"7", "a">> >>
    /\ Edges(net.G) = {<<"7", "a">>}
    /\ net.G.weight[<<"7", "a">>] = 2

\* every sequence of the history h has length n
AllOfLength(h, n) ==
    /\ Len(h.pi_true) = n /\ Len(h.y_true) = n /\ Len(h.pi_hat) = n
    /\ Len(h.y_hat) = n /\ Len(h.u) = n /\ Len(h.u_eff) = n

\* the entries iteration n wrote into the frame s2, from the frame s: the
\* plant moved from the truth of the period before, the observation is of the
\* truth of this period, the estimate is the update of the old engine on that
\* observation, the control is the policy on that estimate, the effective
\* control is that control through the channel, and each sequence gained one
IterationInOrder(s, s2) ==
    LET n == s2.n
        h == s2.history
        e == s.engine
        x_prev == IF n = 1 THEN <<0, 0>> ELSE <<h.pi_true[n - 1], h.y_true[n - 1]>>
        x == <<h.pi_true[n], h.y_true[n]>>
        est == <<h.pi_hat[n], h.y_hat[n]>>
    IN  /\ n = s.n + 1
        /\ AllOfLength(s.history, s.n)
        /\ AllOfLength(h, n)
        /\ x = VecAdd(VecAdd(MatVec(e.A, x_prev), VecScale(s2.u_plant[n], e.B)),
                      s2.w[n])
        /\ \E r \in RngStates :
              s2.z[n] = VecAdd(MatVec(e.C, x), MultivariateNormal(e.R, r))
        /\ est = KalmanUpdate(e, s2.z[n], s2.u_kf[n]).engine.x_hat
        /\ h.u[n] = PolicyOutput([e EXCEPT !.x_hat = est])
        /\ \E r \in RngStates : h.u_eff[n] = TransmitPolicy(e, h.u[n], r)

\* C22: every iteration of the loop of simulate_cdpm that runs through does
\* plant transition, observation, estimator update, policy on the estimate of
\* that period and channel on the control of that period, and then appends
\* one entry to every sequence of the history; a history that is returned, to
\* the caller or to evaluate_policy, has sequences of length T.
C22_IterationOrderAndLength ==
    [][ /\ (pc = "sim" /\ pc' = "sim" /\ sim' # sim) => IterationInOrder(sim, sim')
        /\ (pc = "sim" /\ pc' = "returned" /\ ret'.kind = "return")
           => (ret'.value = sim.history /\ AllOfLength(ret'.value, ret'.args.T))
        /\ (pc = "sim" /\ pc' = "eval")
           => (evl'.hist = sim.history /\ AllOfLength(evl'.hist, sim.args.T)) ]_vars

\* a run of two periods has come back with two entries in every sequence, with
\* estimates that moved and a channel that disturbed the second control
C22_Witness ==
    /\ pc = "returned" /\ ret.op = "simulate_cdpm" /\ ret.kind = "return"
    /\ ret.args.T = 2
    /\ AllOfLength(ret.value, 2)
    /\ ret.value.pi_hat[1] # 0
    /\ ret.value.pi_hat[2] # ret.value.pi_hat[1]
    /\ ret.value.u[2] # ret.value.u[1]
    /\ ret.value.u_eff[2] # ret.value.u[2]

\* C23: an iteration of the loop of simulate_mm1_queue draws a service time
\* only if it starts with someone in the queue; one that starts with the
\* queue empty has an infinite service candidate, takes from the stream the
\* arrival draw at most, and does not lower the queue length.
C23_ServiceDrawnOnlyWhenQueued ==
    [][ (pc = "queue" /\ pc' = "queue" /\ que' # que)
        => LET i == Len(que'.service_drawn)
           IN  /\ i = Len(que.service_drawn) + 1
               /\ que'.service_drawn[i] => que.queue_length > 0
               /\ rng' = LET r1 == IF que.args.lmbda > 0 THEN Lcg(rng) ELSE rng
                         IN  IF que'.service_drawn[i] THEN Lcg(r1) ELSE r1
               /\ que.queue_length = 0
                  => /\ ~que'.service_drawn[i]
                     /\ \A r \in RngStates : ServiceTime(que, r) = Inf
                     /\ que'.queue_length >= que.queue_length ]_vars

\* a run with a positive service rate has come back: one of its iterations
\* started with the queue empty and drew no service time, and another started
\* with someone waiting and drew one
C23_Witness ==
    /\ pc = "returned" /\ ret.op = "simulate_mm1_queue"
    /\ ret.args.mu > 0
    /\ \E i \in 1 .. Len(ret.service_drawn) :
          ret.value.qs[i] = 0 /\ ~ret.service_drawn[i]
    /\ \E j \in 1 .. Len(ret.service_drawn) :
          ret.value.qs[j] > 0 /\ ret.service_drawn[j]

\* the error of call i of policy_update in the run of frame s, e_0 = 0
ErrorAt(s, i) == IF i = 0 THEN 0 ELSE s.args.pi_target - s.history.pi_hat[i]
\* the sum of the errors of the calls 1 .. i
ErrorSum(s, i) == SumSeq([j \in 1 .. i |-> ErrorAt(s, j)])
\* the instrument call i started from: that of the call before, 0 at first
InstrumentBefore(s, i) == IF i = 1 THEN 0 ELSE s.history.u[i - 1]

\* C24: after k calls of policy_update on one engine, e_int is the sum of
\* the k errors e_i = pi_target - pi_hat_i, unclamped, e_prev is e_k, and the
\* derivative term of call i is Kd times (e_i - e_(i-1)), with e_0 = 0.
C24_IntegralAndPreviousError ==
    (pc = "sim")
    => LET k == sim.n
           e == sim.engine
       IN  /\ Len(sim.history.pi_hat) = k
           /\ e.e_int = ErrorSum(sim, k)
           /\ e.e_prev = ErrorAt(sim, k)
           /\ \A i \in 1 .. k :
                 sim.history.u[i] - InstrumentBefore(sim, i)
                     - Mul(e.Kp, ErrorAt(sim, i)) - Mul(e.Ki, ErrorSum(sim, i))
                 = Mul(e.Kd, ErrorAt(sim, i) - ErrorAt(sim, i - 1))

\* two calls have been made, with two different errors whose sum is beyond
\* a tenth, and the integral holds that sum
C24_Witness ==
    /\ pc = "sim" /\ sim.n = 2
    /\ ErrorAt(sim, 1) # 0
    /\ ErrorAt(sim, 2) # ErrorAt(sim, 1)
    /\ Abs(ErrorAt(sim, 1) + ErrorAt(sim, 2)) > Scale \div 10
    /\ sim.engine.e_int = ErrorAt(sim, 1) + ErrorAt(sim, 2)
    /\ sim.engine.e_prev = ErrorAt(sim, 2)

\* C25: the instrument every call of policy_update returns is the sum of the
\* proportional, integral and derivative terms and of nothing else:
\* u_t = Kp e_t + Ki e_int_t + Kd (e_t - e_(t-1)).
C25_InstrumentIsSumOfThreeTerms ==
    (pc = "sim")
    => \A i \in 1 .. sim.n :
          sim.history.u[i]
          = Mul(sim.engine.Kp, ErrorAt(sim, i))
            + Mul(sim.engine.Ki, ErrorSum(sim, i))
            + Mul(sim.engine.Kd, ErrorAt(sim, i) - ErrorAt(sim, i - 1))

\* the values of a grid
Values(grid) == {grid[i] : i \in 1 .. Len(grid)}

\* C26: with no grid empty, coarse_grid_search returns best_params = None,
\* with best_loss = +inf and best_hist = None, exactly when none of the
\* losses it computed is below +inf; otherwise best_params is a triple of the
\* product of the grids, and best_loss and best_hist are the loss and the
\* history computed for that triple.
C26_NoneIffNoFiniteLoss ==
    (pc = "returned" /\ ret.op = "coarse_grid_search" /\ ~SomeGridEmpty(ret.args))
    => LET ev == ret.evals
           below == {n \in 1 .. Len(ev) : ev[n].loss < Inf}
           best == ret.value
       IN  /\ ret.kind = "return"
           /\ Len(ev) > 0
           /\ (best.best_params = NoneOpt) <=> (below = {})
           /\ below = {} => (best.best_loss = Inf /\ best.best_hist = NoneOpt)
           /\ below # {}
              => \E n \in below :
                    /\ best.best_params = Some(ev[n].params)
                    /\ ev[n].params \in Values(ret.args.Kp_grid)
                           \X Values(ret.args.Ki_grid) \X Values(ret.args.Kd_grid)
                    /\ best.best_loss = ev[n].loss
                    /\ best.best_hist = Some(ev[n].hist)

\* a search of two triples has ended with nothing: the loss of each was +inf
C26_Witness ==
    /\ pc = "returned" /\ ret.op = "coarse_grid_search"
    /\ Len(ret.evals) = 2
    /\ \A n \in 1 .. 2 : ret.evals[n].loss = Inf
    /\ ret.value.best_params = NoneOpt
    /\ ret.value.best_loss = Inf

\* C27: simulate_mm1_queue with lmbda <= 0 and T > 0 runs its loop once,
\* whatever mu: before that iteration both candidate times are infinite for
\* any state of the stream; after it the clock is at infinity and the length
\* still 0; and what returns is times = [0, inf], lengths = [0, 0], with no
\* draw made from the stream.
C27_NoArrivalsOneIteration ==
    /\ (pc = "queue" /\ que.args.lmbda <= 0 /\ que.args.T > 0)
       => \/ /\ que.times = <<0>> /\ que.qs = <<0>> /\ que.t = 0
             /\ \A r \in RngStates :
                   /\ ArrivalTime(que, r) = Inf
                   /\ ServiceTime(que, r) = Inf
                   /\ QueueBody(que, r).rng = r
          \/ /\ que.times = <<0, Inf>> /\ que.qs = <<0, 0>>
             /\ que.t = Inf /\ que.queue_length = 0
             /\ ~(que.t < que.args.T)
    /\ ( /\ pc = "returned" /\ ret.op = "simulate_mm1_queue"
         /\ ret.args.lmbda <= 0 /\ ret.args.T > 0 )
       => /\ ret.kind = "return"
          /\ ret.value.times = <<0, Inf>>
          /\ ret.value.qs = <<0, 0>>
          /\ ret.service_drawn = <<FALSE>>

\* a call with a negative lmbda, a positive mu and the longest horizon has
\* returned the two records
C27_Witness ==
    /\ pc = "returned" /\ ret.op = "simulate_mm1_queue"
    /\ ret.args.lmbda < 0 /\ ret.args.mu > 0 /\ ret.args.T = MaxHorizon * Scale
    /\ ret.value.times = <<0, Inf>>
    /\ ret.value.qs = <<0, 0>>
====
